---------------------------- MODULE Spec2Model ----------------------------
(***************************************************************************)
(* Model of the staggered grid (src/src/discretization/0_staggered_grid.cpp)*)
(* and of the time-step orchestrator (src/src/computation.cpp).             *)
(*                                                                         *)
(* A double is modelled as an exact rational <<n, d>> in lowest terms with  *)
(* d > 0, extended by the IEEE-754 value +Inf (<<1, 0>>) that a division of *)
(* a positive number by zero yields, and NaN (<<0, 0>>) for 0/0.  Rounding  *)
(* of the 53-bit mantissa is not modelled.                                  *)
(***************************************************************************)
EXTENDS Integers, Sequences, FiniteSets, TLC

VARIABLES
    pc,               \* position of the run: which call is next, or "aborted"
    settings_,        \* Computation::settings_
    meshWidth_,       \* Computation::meshWidth_
    discretization_,  \* Computation::discretization_ (the StaggeredGrid), or NullGrid
    pressureSolver_,  \* Computation::pressureSolver_: Null, "SOR" or "GaussSeidel"
    dt_,              \* Computation::dt_; NaN stands for its value before line 37
    currentTime,      \* local of runSimulation
    cout,             \* the last diagnostic written to std::cout
    written,          \* the times handed to the output writers, in order
    ret,              \* the value returned by the last accessor call, or NoValue
    lastAcc,          \* the last accessor call issued: its name, arguments and use
    hist              \* history of the run: facts about steps already taken

vars == <<pc, settings_, meshWidth_, discretization_, pressureSolver_, dt_,
          currentTime, cout, written, ret, lastAcc, hist>>

\* no solver; no grid; settings and mesh widths not yet loaded or computed
Null == "null"
NullGrid == [null |-> TRUE]
Unloaded == [loaded |-> FALSE]
Indeterminate == <<>>
NoValue == <<>>
NoAccess == [acc |-> "none"]
NoMessage == [axis |-> "none"]

-----------------------------------------------------------------------------
(* Bounds of the model.                                                     *)

\* largest cell count per axis
MaxCells == 2

\* the cell counts nCells of the grids constructed
CellCounts == (1 .. MaxCells) \X (1 .. MaxCells)

-----------------------------------------------------------------------------
(* Exact arithmetic on doubles.                                             *)

Abs(n) == IF n < 0 THEN -n ELSE n

\* first, computed once, is handed to Rest
Then(first, Rest(_)) == CHOOSE after \in {Rest(m) : m \in {first}} : TRUE

\* the operands of an operation, each computed once, are handed to Combine
Operands(a, b, Combine(_, _)) ==
    CHOOSE r \in {Combine(x, y) : x \in {a}, y \in {b}} : TRUE

RECURSIVE Gcd(_, _)
Gcd(a, b) == IF b = 0 THEN a ELSE Then(a % b, LAMBDA rest : Gcd(b, rest))

Inf == <<1, 0>>
NaN == <<0, 0>>

\* the rational n/d in lowest terms, d # 0
Norm(n, d) ==
    Operands(Gcd(Abs(n), Abs(d)), IF d < 0 THEN -1 ELSE 1,
             LAMBDA g, s : <<(s * n) \div g, (s * d) \div g>>)

R(n) == <<n, 1>>
Zero == R(0)

IsFinite(a) == a[2] > 0

Add(a, b) ==
    Operands(a, b, LAMBDA x, y :
        IF x = NaN \/ y = NaN THEN NaN
        ELSE IF x = Inf \/ y = Inf THEN Inf
        ELSE Norm(x[1] * y[2] + y[1] * x[2], x[2] * y[2]))

Neg(a) == <<-a[1], a[2]>>

Sub(a, b) ==
    Operands(a, b, LAMBDA x, y :
        IF x = NaN \/ y = NaN THEN NaN
        ELSE IF y = Inf THEN NaN
        ELSE IF x = Inf THEN Inf
        ELSE Norm(x[1] * y[2] - y[1] * x[2], x[2] * y[2]))

Mul(a, b) ==
    Operands(a, b, LAMBDA x, y :
        IF x = NaN \/ y = NaN THEN NaN
        ELSE IF x = Inf \/ y = Inf
             THEN (IF x = Zero \/ y = Zero THEN NaN ELSE Inf)
        ELSE Norm(x[1] * y[1], x[2] * y[2]))

\* IEEE-754 division: x/0 is +Inf for x > 0, 0/0 is NaN, x/Inf is 0
Div(a, b) ==
    Operands(a, b, LAMBDA x, y :
        IF x = NaN \/ y = NaN THEN NaN
        ELSE IF y = Inf THEN (IF x = Inf THEN NaN ELSE Zero)
        ELSE IF x = Inf THEN Inf
        ELSE IF y[1] = 0 THEN (IF x[1] = 0 THEN NaN ELSE Inf)
        ELSE Norm(x[1] * y[2], x[2] * y[1]))

\* a < b; every comparison with NaN is false
Less(a, b) ==
    Operands(a, b, LAMBDA x, y :
        /\ x # NaN
        /\ y # NaN
        /\ x # Inf
        /\ \/ y = Inf
           \/ x[1] * y[2] < y[1] * x[2])

Leq(a, b) == Operands(a, b, LAMBDA x, y : x # NaN /\ y # NaN /\ (x = y \/ Less(x, y)))

\* std::abs
FAbs(a) == Then(a, LAMBDA x : <<Abs(x[1]), x[2]>>)

\* std::min(a, b): b < a ? b : a
Min2(a, b) == Operands(a, b, LAMBDA x, y : IF Less(y, x) THEN y ELSE x)

\* std::min({a, b, c}): the first smallest element
Min3(a, b, c) == Min2(Min2(a, b), c)

-----------------------------------------------------------------------------
(* StaggeredGrid: construction.                                             *)

\* an Array2D of the given size, every entry zero
Array2D(sx, sy) == [c \in (0 .. sx - 1) \X (0 .. sy - 1) |-> Zero]

StaggeredGrid(nCells, meshWidth) ==
    [ u_         |-> Array2D(nCells[1] + 1, nCells[2] + 2),
      v_         |-> Array2D(nCells[1] + 2, nCells[2] + 1),
      p_         |-> Array2D(nCells[1] + 2, nCells[2] + 2),
      f_         |-> Array2D(nCells[1] + 1, nCells[2] + 2),
      g_         |-> Array2D(nCells[1] + 2, nCells[2] + 1),
      rhs_       |-> Array2D(nCells[1] + 2, nCells[2] + 2),
      meshWidth_ |-> meshWidth,
      nCells_    |-> nCells ]

nCells_ == discretization_.nCells_

-----------------------------------------------------------------------------
(* StaggeredGrid: the beginnings and endings of the logical ranges.         *)

uIBegin == -1
uJBegin == -1
vIBegin == -1
vJBegin == -1
pIBegin == -1
pJBegin == -1

\* faulty variant: the end of the u range as cell-count + 1
uIEnd_PlusOne == nCells_[1] + 1

uIEnd == nCells_[1]
uJEnd == nCells_[2] + 1
vIEnd == nCells_[1] + 1
vJEnd == nCells_[2]
pIEnd == nCells_[1] + 1
pJEnd == nCells_[2] + 1

-----------------------------------------------------------------------------
(* StaggeredGrid: the accessors.  A call either fails its range check, in   *)
(* which case it has written a line to std::cout and executed "throw;" with *)
(* no exception in flight (std::terminate), or yields the storage cell      *)
(* (x, y) of a member array.                                                *)

Fail(axis, field, index, lo, hi) ==
    [ok |-> FALSE,
     msg |-> [axis |-> axis, field |-> field, index |-> index, lo |-> lo, hi |-> hi]]

Cell(member, x, y) == [ok |-> TRUE, member |-> member, x |-> x, y |-> y]

\* double StaggeredGrid::u(int i, int j) const
u_const(i, j) ==
    IF ~(i >= uIBegin /\ i < uIEnd) THEN Fail("i", "u", i, uIBegin, uIEnd)
    ELSE IF ~(j >= uJBegin /\ j < uJEnd) THEN Fail("j", "u", j, uJBegin, uJEnd)
    ELSE Cell("u_", i + 1, j + 1)

\* double& StaggeredGrid::u(int i, int j); its j message is labelled "i-Index"
u(i, j) ==
    IF ~(i >= uIBegin /\ i < uIEnd) THEN Fail("i", "u", i, uIBegin, uIEnd)
    ELSE IF ~(j >= uJBegin /\ j < uJEnd) THEN Fail("i", "u", j, uJBegin, uJEnd)
    ELSE Cell("u_", i + 1, j + 1)

\* faulty variant: the const accessor of v without the shift of j
v_const_NoShift(i, j) ==
    IF ~(i >= vIBegin /\ i < vIEnd) THEN Fail("i", "v", i, vIBegin, vIEnd)
    ELSE IF ~(j >= vJBegin /\ j < vJEnd) THEN Fail("j", "v", j, vJBegin, vJEnd)
    ELSE Cell("v_", i + 1, j)

\* double StaggeredGrid::v(int i, int j) const
v_const(i, j) ==
    IF ~(i >= vIBegin /\ i < vIEnd) THEN Fail("i", "v", i, vIBegin, vIEnd)
    ELSE IF ~(j >= vJBegin /\ j < vJEnd) THEN Fail("j", "v", j, vJBegin, vJEnd)
    ELSE Cell("v_", i + 1, j + 1)

\* double& StaggeredGrid::v(int i, int j)
v(i, j) ==
    IF ~(i >= vIBegin /\ i < vIEnd) THEN Fail("i", "v", i, vIBegin, vIEnd)
    ELSE IF ~(j >= vJBegin /\ j < vJEnd) THEN Fail("j", "v", j, vJBegin, vJEnd)
    ELSE Cell("v_", i + 1, j + 1)

\* double StaggeredGrid::p(int i, int j) const
p_const(i, j) ==
    IF ~(i >= pIBegin /\ i < pIEnd) THEN Fail("i", "p", i, pIBegin, pIEnd)
    ELSE IF ~(j >= pJBegin /\ j < pJEnd) THEN Fail("j", "p", j, pJBegin, pJEnd)
    ELSE Cell("p_", i + 1, j + 1)

\* double& StaggeredGrid::p(int i, int j)
p(i, j) ==
    IF ~(i >= pIBegin /\ i < pIEnd) THEN Fail("i", "p", i, pIBegin, pIEnd)
    ELSE IF ~(j >= pJBegin /\ j < pJEnd) THEN Fail("j", "p", j, pJBegin, pJEnd)
    ELSE Cell("p_", i + 1, j + 1)

\* faulty variant: the accessor of rhs clamping its indices to the valid range
rhs_Clamping(i, j) ==
    LET ci == IF i < pIBegin THEN pIBegin ELSE IF i >= pIEnd THEN pIEnd - 1 ELSE i
        cj == IF j < pJBegin THEN pJBegin ELSE IF j >= pJEnd THEN pJEnd - 1 ELSE j
    IN  Cell("rhs_", ci + 1, cj + 1)

\* double& StaggeredGrid::rhs(int i, int j)
rhs(i, j) ==
    IF ~(i >= pIBegin /\ i < pIEnd) THEN Fail("i", "rhs", i, pIBegin, pIEnd)
    ELSE IF ~(j >= pJBegin /\ j < pJEnd) THEN Fail("j", "rhs", j, pJBegin, pJEnd)
    ELSE Cell("rhs_", i + 1, j + 1)

\* double& StaggeredGrid::f(int i, int j)
f(i, j) ==
    IF ~(i >= uIBegin /\ i < uIEnd) THEN Fail("i", "f", i, uIBegin, uIEnd)
    ELSE IF ~(j >= uJBegin /\ j < uJEnd) THEN Fail("j", "f", j, uJBegin, uJEnd)
    ELSE Cell("f_", i + 1, j + 1)

\* double& StaggeredGrid::g(int i, int j)
g(i, j) ==
    IF ~(i >= vIBegin /\ i < vIEnd) THEN Fail("i", "g", i, vIBegin, vIEnd)
    ELSE IF ~(j >= vJBegin /\ j < vJEnd) THEN Fail("j", "g", j, vJBegin, vJEnd)
    ELSE Cell("g_", i + 1, j + 1)

\* the accessors that return a value, and those that return a reference
ConstAccessors == {"u_const", "v_const", "p_const"}
RefAccessors == {"u", "v", "p", "rhs", "f", "g"}

Call(acc, i, j) ==
    CASE acc = "u_const" -> u_const(i, j)
      [] acc = "u"       -> u(i, j)
      [] acc = "v_const" -> v_const(i, j)
      [] acc = "v"       -> v(i, j)
      [] acc = "p_const" -> p_const(i, j)
      [] acc = "p"       -> p(i, j)
      [] acc = "rhs"     -> rhs(i, j)
      [] acc = "f"       -> f(i, j)
      [] acc = "g"       -> g(i, j)

\* the cell lies inside the member array it names
InStorage(grid, c) == <<c.x, c.y>> \in DOMAIN grid[c.member]

Load(grid, c) == grid[c.member][<<c.x, c.y>>]

Store(grid, c, val) == [grid EXCEPT ![c.member][<<c.x, c.y>>] = val]

\* the stored value at logical index (i, j)
U(i, j) == discretization_.u_[<<i + 1, j + 1>>]
V(i, j) == discretization_.v_[<<i + 1, j + 1>>]
F(i, j) == discretization_.f_[<<i + 1, j + 1>>]
G(i, j) == discretization_.g_[<<i + 1, j + 1>>]

-----------------------------------------------------------------------------
(* Computation: the settings and the history of a run.                      *)

Settings(n, size, re, endTime, tau, maximumDt, bottom, top, left, right, solver) ==
    [ nCells |-> n, physicalSize |-> size, re |-> re, endTime |-> endTime,
      tau |-> tau, maximumDt |-> maximumDt,
      dirichletBcBottom |-> bottom, dirichletBcTop |-> top,
      dirichletBcLeft |-> left, dirichletBcRight |-> right,
      pressureSolver |-> solver ]

\* meshWidth_[i] = physicalSize[i] / nCells[i]
MeshWidth(s) == <<Div(s.physicalSize[1], R(s.nCells[1])),
                  Div(s.physicalSize[2], R(s.nCells[2]))>>

\* facts about the steps taken so far: the iterations begun, the iteration
\* whose step width was shortened (0: none), the time and the step width before
\* the last advance, and what computeTimeStepWidth last computed
HistInit ==
    [ steps |-> 0, clampedAt |-> 0, timeBefore |-> Zero, dtComputed |-> Zero,
      boundary_diffusion |-> Zero, u_max |-> Zero, v_max |-> Zero,
      dividedByZero |-> FALSE ]

-----------------------------------------------------------------------------
(* Statements of the orchestrator on the grid.  A run of statements carries *)
(* the grid, the running maximum of a scan, and a status: "ok", "aborted"   *)
(* once an accessor has failed its                                          *)
(* range check (with the line it printed), or "undefined" once a cell       *)
(* outside a member array was touched.  Nothing executes after a failure.   *)

Running(grid) == [status |-> "ok", grid |-> grid, msg |-> NoMessage, max |-> Zero]

\* the value read through an accessor result; meaningless when the call failed
Value(m, c) == IF c.ok /\ InStorage(m.grid, c) THEN Load(m.grid, c) ELSE NaN

\* the first call of a statement that fails, if any
FirstBad(m, calls) ==
    Then(calls, LAMBDA cs :
        Then({k \in DOMAIN cs : ~cs[k].ok \/ ~InStorage(m.grid, cs[k])},
             LAMBDA bad : IF bad = {} THEN <<>>
                          ELSE <<cs[CHOOSE k \in bad : \A l \in bad : k <= l]>>))

\* the accessor calls of one statement, none of them assigned through
Reads(m, calls) ==
    IF m.status # "ok" THEN m
    ELSE Then(FirstBad(m, calls), LAMBDA bad :
             IF bad = <<>> THEN m
             ELSE IF ~bad[1].ok THEN [m EXCEPT !.status = "aborted", !.msg = bad[1].msg]
             ELSE [m EXCEPT !.status = "undefined"])

\* target = val, where val was computed from the calls in reads
Assign(m, target, reads, val) ==
    IF m.status # "ok" THEN m
    ELSE Then(Reads(m, reads \o <<target>>), LAMBDA r :
             IF r.status # "ok" THEN r
             ELSE [r EXCEPT !.grid = Store(r.grid, target, val)])

\* for (k = lo; k < hi; k++) Body(m, k)
For(m, lo, hi, Body(_, _)) ==
    LET last == IF hi < lo THEN lo ELSE hi
        run[k \in lo .. last] ==
            IF k = lo THEN m
            ELSE Then(run[k - 1],
                      LAMBDA before : IF before.status # "ok" THEN before
                                      ELSE Body(before, k - 1))
    IN  run[last]

-----------------------------------------------------------------------------
(* Computation::applyBoundaryValues.                                        *)

Two == R(2)

\* lines 165-172: u at the bottom and at the top
BottomTopU(m, i) ==
    Then(Assign(m, u(i, uJBegin), <<u(i, uJBegin + 1)>>,
           Sub(Mul(Two, settings_.dirichletBcBottom[1]), Value(m, u(i, uJBegin + 1)))),
         LAMBDA m1 :
             Assign(m1, u(i, uJEnd - 1), <<u(i, uJEnd - 2)>>,
                    Sub(Mul(Two, settings_.dirichletBcTop[1]), Value(m1, u(i, uJEnd - 2)))))

\* lines 175-182: v at the bottom and at the top
BottomTopV(m, i) ==
    Then(Assign(m, v(i, vJBegin), <<>>, settings_.dirichletBcBottom[2]),
         LAMBDA m1 :
             Assign(m1, v(i, vJEnd - 1), <<>>, settings_.dirichletBcTop[2]))

\* lines 186-193: u at the left and at the right
LeftRightU(m, j) ==
    Then(Assign(m, u(uIBegin, j), <<>>, settings_.dirichletBcLeft[1]),
         LAMBDA m1 :
             Assign(m1, u(uIEnd - 1, j), <<>>, settings_.dirichletBcRight[1]))

\* lines 195-202: v at the left and at the right
LeftRightV(m, j) ==
    Then(Assign(m, v(vIBegin, j), <<v(vIBegin + 1, j)>>,
           Sub(Mul(Two, settings_.dirichletBcLeft[2]), Value(m, v(vIBegin + 1, j)))),
         LAMBDA m1 :
             Assign(m1, v(vIEnd - 1, j), <<v(vIEnd - 2, j)>>,
                    Sub(Mul(Two, settings_.dirichletBcRight[2]), Value(m1, v(vIEnd - 2, j)))))

\* lines 207-214: f at the bottom and at the top
BottomTopF(m, i) ==
    Then(Assign(m, f(i, uJBegin), <<u(i, uJBegin)>>, Value(m, u(i, uJBegin))),
         LAMBDA m1 :
             Assign(m1, f(i, uJEnd - 1), <<u(i, uJEnd - 1)>>,
                    Value(m1, u(i, uJEnd - 1))))

\* lines 216-223: g at the bottom and at the top
BottomTopG(m, i) ==
    Then(Assign(m, g(i, vJBegin), <<v(i, vJBegin)>>, Value(m, v(i, vJBegin))),
         LAMBDA m1 :
             Assign(m1, g(i, vJEnd - 1), <<v(i, vJEnd - 1)>>,
                    Value(m1, v(i, vJEnd - 1))))

\* lines 228-235: f at the left and at the right
LeftRightF(m, j) ==
    Then(Assign(m, f(uIBegin, j), <<u(uIBegin, j)>>, Value(m, u(uIBegin, j))),
         LAMBDA m1 :
             Assign(m1, f(uIEnd - 1, j), <<u(uIEnd - 1, j)>>,
                    Value(m1, u(uIEnd - 1, j))))

\* lines 237-244: g at the left and at the right
LeftRightG(m, j) ==
    Then(Assign(m, g(vIBegin, j), <<v(vIBegin, j)>>, Value(m, v(vIBegin, j))),
         LAMBDA m1 :
             Assign(m1, g(vIEnd - 1, j), <<v(vIEnd - 1, j)>>,
                    Value(m1, v(vIEnd - 1, j))))

\* faulty variant: the sides first, then bottom and top
applyBoundaryValues_SidesFirst(m) ==
    LET m1 == For(m, uJBegin, uJEnd, LeftRightU)
        m2 == For(m1, vJBegin, vJEnd, LeftRightV)
        m3 == For(m2, uIBegin, uIEnd, BottomTopU)
        m4 == For(m3, vIBegin, vIEnd, BottomTopV)
        m5 == For(m4, uIBegin, uIEnd, BottomTopF)
        m6 == For(m5, vIBegin, vIEnd, BottomTopG)
        m7 == For(m6, uJBegin, uJEnd, LeftRightF)
    IN  For(m7, vJBegin, vJEnd, LeftRightG)

\* the eight loops in the order of the code
applyBoundaryValues(m) ==
    LET m1 == For(m, uIBegin, uIEnd, BottomTopU)
        m2 == For(m1, vIBegin, vIEnd, BottomTopV)
        m3 == For(m2, uJBegin, uJEnd, LeftRightU)
        m4 == For(m3, vJBegin, vJEnd, LeftRightV)
        m5 == For(m4, uIBegin, uIEnd, BottomTopF)
        m6 == For(m5, vIBegin, vIEnd, BottomTopG)
        m7 == For(m6, uJBegin, uJEnd, LeftRightF)
    IN  For(m7, vJBegin, vJEnd, LeftRightG)

\* the outcome of a run of statements becomes the state of the run
Outcome(m, next) ==
    /\ discretization_' = m.grid
    /\ pc' = IF m.status = "ok" THEN next ELSE m.status
    /\ cout' = IF m.status = "aborted" THEN m.msg ELSE cout

\* runSimulation, lines 53-57: the loop condition holds, step 1
ApplyBoundaryValues ==
    /\ pc = "loop"
    /\ Less(currentTime, settings_.endTime)
    /\ \E m \in {applyBoundaryValues(Running(discretization_))} :
          Outcome(m, "computeTimeStepWidth")
    /\ hist' = [hist EXCEPT !.steps = hist.steps + 1]
    /\ UNCHANGED <<settings_, meshWidth_, pressureSolver_, dt_, currentTime,
                   written, ret, lastAcc>>

-----------------------------------------------------------------------------
(* Computation::computeTimeStepWidth.                                       *)

\* faulty variant: the square-mesh bound divided by 2
SquareBound_Half(re, mw) == Div(Mul(Mul(re, mw[1]), mw[2]), R(2))

\* line 111
SquareBound(re, mw) == Div(Mul(Mul(re, mw[1]), mw[2]), R(4))

\* lines 114-116
NonSquareBound(re, mw) ==
    LET h2x == Mul(mw[1], mw[1])
        h2y == Mul(mw[2], mw[2])
    IN  Mul(Mul(Div(re, Two), Mul(h2x, h2y)), Div(R(1), Add(h2x, h2y)))

\* lines 106-119
boundary_diffusion(re, mw) ==
    IF mw[1] = mw[2] THEN SquareBound(re, mw) ELSE NonSquareBound(re, mw)

\* lines 127-131 and 140-144: one cell of a scan
ScanCell(m, c) ==
    Operands(Reads(m, <<c>>), FAbs(Value(m, c)), LAMBDA r, value :
        IF r.status # "ok" THEN r
        ELSE IF Less(r.max, value) THEN [r EXCEPT !.max = value] ELSE r)

\* faulty variant: the scan of u over the interior cells only
ScanU_Interior(m) ==
    For([m EXCEPT !.max = Zero], uJBegin + 1, uJEnd - 1,
        LAMBDA mj, j : For(mj, uIBegin + 1, uIEnd - 1,
                           LAMBDA mi, i : ScanCell(mi, u(i, j))))

\* lines 122-133: u_max
ScanU(m) ==
    For([m EXCEPT !.max = Zero], uJBegin, uJEnd,
        LAMBDA mj, j : For(mj, uIBegin, uIEnd,
                           LAMBDA mi, i : ScanCell(mi, u(i, j))))

\* lines 135-146: v_max
ScanV(m) ==
    For([m EXCEPT !.max = Zero], vJBegin, vJEnd,
        LAMBDA mj, j : For(mj, vIBegin, vIEnd,
                           LAMBDA mi, i : ScanCell(mi, v(i, j))))

\* faulty variant: a guard that turns a zero maximum into a zero bound
StepWidth_ZeroBound(bound, u_max, v_max) ==
    LET boundary_convection_u ==
            IF u_max = Zero THEN Zero ELSE Div(meshWidth_[1], u_max)
        boundary_convection_v ==
            IF v_max = Zero THEN Zero ELSE Div(meshWidth_[2], v_max)
        min_dt == Min3(bound, boundary_convection_u, boundary_convection_v)
    IN  Min2(Mul(min_dt, settings_.tau), settings_.maximumDt)

\* lines 149-158
StepWidth(bound, u_max, v_max) ==
    LET boundary_convection_u == Div(meshWidth_[1], u_max)
        boundary_convection_v == Div(meshWidth_[2], v_max)
        min_dt == Min3(bound, boundary_convection_u, boundary_convection_v)
    IN  Min2(Mul(min_dt, settings_.tau), settings_.maximumDt)

\* runSimulation, line 60: step 2
ComputeTimeStepWidth ==
    /\ pc = "computeTimeStepWidth"
    /\ \E bound \in {boundary_diffusion(settings_.re, meshWidth_)},
          mu \in {ScanU(Running(discretization_))} :
        \E mv \in {ScanV(mu)} :
           /\ Outcome(mv, "advanceTime")
           /\ IF mv.status = "ok"
              THEN /\ dt_' = StepWidth(bound, mu.max, mv.max)
                   /\ hist' = [hist EXCEPT !.boundary_diffusion = bound,
                                           !.u_max = mu.max,
                                           !.v_max = mv.max,
                                           !.dividedByZero =
                                               hist.dividedByZero
                                                 \/ mu.max = Zero \/ mv.max = Zero]
              ELSE UNCHANGED <<dt_, hist>>
    /\ UNCHANGED <<settings_, meshWidth_, pressureSolver_, currentTime,
                   written, ret, lastAcc>>

-----------------------------------------------------------------------------
(* Computation::runSimulation, lines 64-72: the last step ends on endTime.  *)

\* faulty variant: the time is advanced by the computed step width, never shortened
AdvanceTime_NoClamp ==
    /\ pc = "advanceTime"
    /\ UNCHANGED dt_
    /\ currentTime' = Add(currentTime, dt_)
    /\ pc' = "computePreliminaryVelocities"
    /\ hist' = [hist EXCEPT !.timeBefore = currentTime, !.dtComputed = dt_,
                            !.clampedAt =
                                IF Less(settings_.endTime, Add(currentTime, dt_))
                                THEN hist.steps ELSE hist.clampedAt]
    /\ UNCHANGED <<settings_, meshWidth_, discretization_, pressureSolver_, cout,
                   written, ret, lastAcc>>

AdvanceTime ==
    /\ pc = "advanceTime"
    /\ dt_' = IF Less(settings_.endTime, Add(currentTime, dt_))
              THEN Sub(settings_.endTime, currentTime)
              ELSE dt_
    /\ currentTime' = Add(currentTime, dt_')
    /\ pc' = "computePreliminaryVelocities"
    /\ hist' = [hist EXCEPT !.timeBefore = currentTime, !.dtComputed = dt_,
                            !.clampedAt =
                                IF Less(settings_.endTime, Add(currentTime, dt_))
                                THEN hist.steps ELSE hist.clampedAt]
    /\ UNCHANGED <<settings_, meshWidth_, discretization_, pressureSolver_, cout,
                   written, ret, lastAcc>>

-----------------------------------------------------------------------------
(* Computation::initialize.                                                 *)

Recognized == {"SOR", "GaussSeidel"}

\* faulty variant: an unrecognized solver name is accepted and leaves no solver
Initialize_NoAbort(s) ==
    /\ pc = "main"
    /\ settings_' = s
    /\ meshWidth_' = MeshWidth(s)
    /\ discretization_' = StaggeredGrid(s.nCells, MeshWidth(s))
    /\ pressureSolver_' = IF s.pressureSolver \in Recognized
                          THEN s.pressureSolver ELSE Null
    /\ dt_' = Zero
    /\ pc' = "initialized"
    /\ UNCHANGED <<currentTime, cout, written, ret, lastAcc, hist>>

\* the settings file holds s
Initialize(s) ==
    /\ pc = "main"
    /\ settings_' = s
    /\ meshWidth_' = MeshWidth(s)
    /\ discretization_' = StaggeredGrid(s.nCells, MeshWidth(s))
    /\ IF s.pressureSolver \in Recognized
       THEN /\ pressureSolver_' = s.pressureSolver
            /\ dt_' = Zero
            /\ pc' = "initialized"
            /\ UNCHANGED cout
       ELSE \* the name is printed, then "throw;" terminates the process
            /\ cout' = [axis |-> "none", solver |-> s.pressureSolver]
            /\ pc' = "aborted"
            /\ UNCHANGED <<pressureSolver_, dt_>>
    /\ UNCHANGED <<currentTime, written, ret, lastAcc, hist>>

-----------------------------------------------------------------------------
(* Computation::runSimulation: the remaining steps of the loop.             *)

\* lines 44-50
StartSimulation ==
    /\ pc = "initialized"
    /\ currentTime' = Zero
    /\ pc' = "loop"
    /\ UNCHANGED <<settings_, meshWidth_, discretization_, pressureSolver_, dt_,
                   cout, written, ret, lastAcc, hist>>

\* the values the discretization's derivative terms let a predicted or
\* corrected velocity take; one value for all interior cells of a field
Velocities == {R(-1), R(0)}

\* faulty variant: F is written over the whole range of u, edges included
PredictF_FullRange(m, val) ==
    For(m, uJBegin, uJEnd,
        LAMBDA mj, j : For(mj, uIBegin, uIEnd,
                           LAMBDA mi, i : Assign(mi, f(i, j), <<u(i, j)>>, val)))

\* lines 250-259: F over the interior of u
PredictF(m, val) ==
    For(m, uJBegin + 1, uJEnd - 1,
        LAMBDA mj, j : For(mj, uIBegin + 1, uIEnd - 1,
                           LAMBDA mi, i : Assign(mi, f(i, j), <<u(i, j)>>, val)))

\* lines 262-271: G over the interior of v
PredictG(m, val) ==
    For(m, vJBegin + 1, vJEnd - 1,
        LAMBDA mj, j : For(mj, vIBegin + 1, vIEnd - 1,
                           LAMBDA mi, i : Assign(mi, g(i, j), <<v(i, j)>>, val)))

\* runSimulation, line 79: steps 3 and 4
ComputePreliminaryVelocities ==
    /\ pc = "computePreliminaryVelocities"
    /\ \E a \in Velocities, b \in Velocities :
          \E m \in {PredictG(PredictF(Running(discretization_), a), b)} :
             Outcome(m, "computeRightHandSide")
    /\ UNCHANGED <<settings_, meshWidth_, pressureSolver_, dt_, currentTime,
                   written, ret, lastAcc, hist>>

\* faulty variant: forward differences, reading f(i+1,j) and g(i,j+1)
RhsCell_Forward(m, i, j) ==
    LET dx == m.grid.meshWidth_[1]
        dy == m.grid.meshWidth_[2]
        difference_f == Div(Sub(Value(m, f(i, j)), Value(m, f(i + 1, j))), dx)
        difference_g == Div(Sub(Value(m, g(i, j)), Value(m, g(i, j + 1))), dy)
    IN  Assign(m, rhs(i, j), <<f(i, j), f(i + 1, j), g(i, j), g(i, j + 1)>>,
               Mul(Div(R(1), dt_), Add(difference_f, difference_g)))

\* lines 280-282: one cell of the right hand side
RhsCell(m, i, j) ==
    LET dx == m.grid.meshWidth_[1]
        dy == m.grid.meshWidth_[2]
        difference_f == Div(Sub(Value(m, f(i, j)), Value(m, f(i - 1, j))), dx)
        difference_g == Div(Sub(Value(m, g(i, j)), Value(m, g(i, j - 1))), dy)
    IN  Assign(m, rhs(i, j), <<f(i, j), f(i - 1, j), g(i, j), g(i, j - 1)>>,
               Mul(Div(R(1), dt_), Add(difference_f, difference_g)))

\* lines 276-284
computeRightHandSide(m) ==
    For(m, pJBegin + 1, pJEnd - 1,
        LAMBDA mj, j : For(mj, pIBegin + 1, pIEnd - 1,
                           LAMBDA mi, i : RhsCell(mi, i, j)))

\* runSimulation, line 84: step 5
ComputeRightHandSide ==
    /\ pc = "computeRightHandSide"
    /\ \E m \in {computeRightHandSide(Running(discretization_))} :
          Outcome(m, "computePressure")
    /\ UNCHANGED <<settings_, meshWidth_, pressureSolver_, dt_, currentTime,
                   written, ret, lastAcc, hist>>

\* the pressure fields a solve leaves: uniform, one of these values
Pressures == {R(0), R(1)}

\* runSimulation, line 89: step 6; a call through a null solver is undefined
ComputePressure ==
    /\ pc = "computePressure"
    /\ IF pressureSolver_ = Null
       THEN /\ pc' = "undefined"
            /\ UNCHANGED discretization_
       ELSE /\ pc' = "computeVelocities"
            /\ \E val \in Pressures :
                  discretization_' =
                      [discretization_ EXCEPT
                          !.p_ = [c \in DOMAIN discretization_.p_ |-> val]]
    /\ UNCHANGED <<settings_, meshWidth_, pressureSolver_, dt_, currentTime,
                   cout, written, ret, lastAcc, hist>>

\* lines 295-301: u over its interior
CorrectU(m, val) ==
    For(m, uJBegin + 1, uJEnd - 1,
        LAMBDA mj, j : For(mj, uIBegin + 1, uIEnd - 1,
                           LAMBDA mi, i : Assign(mi, u(i, j), <<f(i, j)>>, val)))

\* lines 304-310: v over its interior
CorrectV(m, val) ==
    For(m, vJBegin + 1, vJEnd - 1,
        LAMBDA mj, j : For(mj, vIBegin + 1, vIEnd - 1,
                           LAMBDA mi, i : Assign(mi, v(i, j), <<g(i, j)>>, val)))

\* runSimulation, line 94: step 7
ComputeVelocities ==
    /\ pc = "computeVelocities"
    /\ \E a \in Velocities, b \in Velocities :
          \E m \in {CorrectV(CorrectU(Running(discretization_), a), b)} :
             Outcome(m, "writeOutput")
    /\ UNCHANGED <<settings_, meshWidth_, pressureSolver_, dt_, currentTime,
                   written, ret, lastAcc, hist>>

\* lines 99-100: step 9, both writers get the time after the step
WriteOutput ==
    /\ pc = "writeOutput"
    /\ written' = Append(written, currentTime)
    /\ pc' = "loop"
    /\ UNCHANGED <<settings_, meshWidth_, discretization_, pressureSolver_, dt_,
                   currentTime, cout, ret, lastAcc, hist>>

\* line 53: the loop condition fails and runSimulation returns
Finish ==
    /\ pc = "loop"
    /\ ~Less(currentTime, settings_.endTime)
    /\ pc' = "done"
    /\ UNCHANGED <<settings_, meshWidth_, discretization_, pressureSolver_, dt_,
                   currentTime, cout, written, ret, lastAcc, hist>>

-----------------------------------------------------------------------------
(* A run of the program: initialize, then runSimulation.                    *)

Half == Div(R(1), R(2))
Quarter == Div(R(1), R(4))
Tenth == Div(R(1), R(10))

\* the Dirichlet values of a run: a driven lid, or walls at rest
Lid == [bottom |-> <<R(0), R(0)>>, top |-> <<R(1), R(0)>>,
        left |-> <<R(0), R(0)>>, right |-> <<R(0), R(0)>>]
AtRest == [bottom |-> <<R(0), R(0)>>, top |-> <<R(0), R(0)>>,
           left |-> <<R(0), R(0)>>, right |-> <<R(0), R(0)>>]

\* the settings files of the runs: Re = 10, endTime = 1/4, tau = 1/2, a square
\* or an oblong domain, a small or a large maximumDt
Configurations ==
    { Settings(n, size, R(10), Quarter, Half, maximumDt,
               bc.bottom, bc.top, bc.left, bc.right, "SOR") :
        n \in CellCounts, size \in {<<R(1), R(1)>>, <<R(2), R(1)>>},
        maximumDt \in {Tenth, R(1)}, bc \in {Lid, AtRest} }
    \cup
    { Settings(n, <<R(1), R(1)>>, R(10), Quarter, Half, R(1),
               Lid.bottom, Lid.top, Lid.left, Lid.right, solver) :
        n \in CellCounts, solver \in {"GaussSeidel", "Jacobi", ""} }

Init ==
    /\ pc = "main"
    /\ settings_ = Unloaded
    /\ meshWidth_ = Indeterminate
    /\ discretization_ = NullGrid
    /\ pressureSolver_ = Null
    /\ dt_ = NaN
    /\ currentTime = Zero
    /\ cout = NoMessage
    /\ written = <<>>
    /\ ret = NoValue
    /\ lastAcc = NoAccess
    /\ hist = HistInit

Next ==
    \/ \E s \in Configurations : Initialize(s)
    \/ StartSimulation
    \/ ApplyBoundaryValues
    \/ ComputeTimeStepWidth
    \/ AdvanceTime
    \/ ComputePreliminaryVelocities
    \/ ComputeRightHandSide
    \/ ComputePressure
    \/ ComputeVelocities
    \/ WriteOutput
    \/ Finish

Spec == Init /\ [][Next]_vars

\* the loop is sequential code: a step that can be taken is taken
FairSpec == Spec /\ WF_vars(Next)

-----------------------------------------------------------------------------
(* Claims about a run, checked under Spec and FairSpec.                     *)

\* the largest element of a non-empty finite set of doubles
Greatest(S) == CHOOSE x \in S : \A y \in S : Leq(y, x)

\* the smallest element of a non-empty finite set of doubles
Least(S) == CHOOSE x \in S : \A y \in S : Leq(x, y)

\* max |field| over every stored cell, ghost cells included
MaxAbs(array) == Greatest({FAbs(array[c]) : c \in DOMAIN array})

C5_ZeroMaximumIsGuarded ==
    (pc = "advanceTime" /\ (hist.u_max = Zero \/ hist.v_max = Zero)) =>
        /\ ~hist.dividedByZero
        /\ IsFinite(dt_)

\* C7: the step width computeTimeStepWidth leaves equals
\* min(tau * min(diffusionBound, dx / max|u|, dy / max|v|), maximumDt), the
\* maxima taken over the full range of u and v; so dt_ <= maximumDt and
\* dt_ <= tau * diffusionBound.
C7_StepWidth ==
    pc = "advanceTime" =>
        LET s == settings_
            bound == hist.boundary_diffusion
            byU == Div(meshWidth_[1], MaxAbs(discretization_.u_))
            byV == Div(meshWidth_[2], MaxAbs(discretization_.v_))
        IN  /\ dt_ = Least({Mul(s.tau, Least({bound, byU, byV})), s.maximumDt})
            /\ Leq(dt_, s.maximumDt)
            /\ Leq(dt_, Mul(s.tau, bound))

\* C7 witness: the maximum of |u| is held by a ghost cell only, the convection
\* bound of u decides the step width and maximumDt does not.
C7_Witness ==
    /\ pc = "advanceTime"
    /\ hist.steps >= 2
    /\ \A i \in uIBegin + 1 .. uIEnd - 2, j \in uJBegin + 1 .. uJEnd - 2 :
          Less(FAbs(U(i, j)), hist.u_max)
    /\ uIEnd - 2 >= uIBegin + 1
    /\ dt_ = Mul(settings_.tau, Div(meshWidth_[1], hist.u_max))
    /\ Less(dt_, settings_.maximumDt)
    /\ Less(dt_, Mul(settings_.tau, hist.boundary_diffusion))

\* C8: the diffusion bound equals Re*dx*dx/4 when dx = dy and
\* (Re/2)*dx^2*dy^2/(dx^2+dy^2) otherwise, and the second formula evaluated on
\* a square mesh of width dx, or of width dy, gives the value of the first.
C8_DiffusionBound ==
    pc = "advanceTime" =>
        LET re == settings_.re
            dx == meshWidth_[1]
            dy == meshWidth_[2]
            dx2 == Mul(dx, dx)
            dy2 == Mul(dy, dy)
        IN  /\ dx = dy => hist.boundary_diffusion = Div(Mul(re, dx2), R(4))
            /\ dx # dy =>
                  hist.boundary_diffusion =
                      Div(Mul(Div(re, Two), Mul(dx2, dy2)), Add(dx2, dy2))
            /\ NonSquareBound(re, <<dx, dx>>) = SquareBound(re, <<dx, dx>>)
            /\ NonSquareBound(re, <<dy, dy>>) = SquareBound(re, <<dy, dy>>)

\* C8 witness: the bound was computed on a mesh with dx = 2 dy.
C8_Witness ==
    /\ pc = "advanceTime"
    /\ meshWidth_[1] = Mul(Two, meshWidth_[2])
    /\ hist.boundary_diffusion = Mul(settings_.re, Div(Mul(meshWidth_[2], meshWidth_[2]), Div(R(5), Two)))

\* C9: with a solver name that is neither "SOR" nor "GaussSeidel" the run is
\* aborted in initialize: no solver exists, no iteration has begun, no step
\* width was computed, no field was touched and nothing was written.
C9_UnknownSolverIsFatal ==
    (pc # "main" /\ settings_.pressureSolver \notin {"SOR", "GaussSeidel"}) =>
        /\ pc = "aborted"
        /\ pressureSolver_ = Null
        /\ hist = HistInit
        /\ dt_ = NaN
        /\ currentTime = Zero
        /\ discretization_ = StaggeredGrid(settings_.nCells, meshWidth_)
        /\ written = <<>>
        /\ cout = [axis |-> "none", solver |-> settings_.pressureSolver]

\* C9 witness: initialize read the name "Jacobi" and the run is aborted.
C9_Witness ==
    /\ pc = "aborted"
    /\ settings_.pressureSolver = "Jacobi"

\* what holds in every state of a run whose settings were accepted
C10_Safety ==
    pc \notin {"main", "aborted"} =>
        /\ Leq(currentTime, settings_.endTime)
        /\ pc \in {"computeTimeStepWidth", "advanceTime"} =>
              Less(currentTime, settings_.endTime)
        /\ pc \in {"computePreliminaryVelocities", "computeRightHandSide",
                   "computePressure", "computeVelocities", "writeOutput"} =>
              /\ Less(Zero, dt_)
              /\ currentTime = Add(hist.timeBefore, dt_)
              /\ Less(hist.timeBefore, currentTime)
              /\ Len(written) = hist.steps - 1
        /\ pc \in {"loop", "done"} =>
              /\ Len(written) = hist.steps
              /\ hist.steps > 0 => written[Len(written)] = currentTime
        /\ \A k \in 1 .. Len(written) - 1 : Less(written[k], written[k + 1])
        /\ \A k \in 1 .. Len(written) : Less(Zero, written[k])
        /\ pc = "done" =>
              /\ ~Less(currentTime, settings_.endTime)
              /\ hist.steps > 0
              /\ written[Len(written)] = settings_.endTime

OnEdge(i, j, ib, ie, jb, je) == i = ib \/ i = ie - 1 \/ j = jb \/ j = je - 1

\* the edge cells of the u range (that of f) and of the v range (that of g)
EdgeOfU == {c \in (uIBegin .. uIEnd - 1) \X (uJBegin .. uJEnd - 1) :
               OnEdge(c[1], c[2], uIBegin, uIEnd, uJBegin, uJEnd)}
EdgeOfV == {c \in (vIBegin .. vIEnd - 1) \X (vJBegin .. vJEnd - 1) :
               OnEdge(c[1], c[2], vIBegin, vIEnd, vJBegin, vJEnd)}
EdgeOfP == {c \in (pIBegin .. pIEnd - 1) \X (pJBegin .. pJEnd - 1) :
               OnEdge(c[1], c[2], pIBegin, pIEnd, pJBegin, pJEnd)}

\* F = u and G = v on every edge cell
EdgesInherited ==
    /\ \A c \in EdgeOfU : F(c[1], c[2]) = U(c[1], c[2])
    /\ \A c \in EdgeOfV : G(c[1], c[2]) = V(c[1], c[2])

\* a step leaves the edge cells of u, v, F, G and rhs as they were
EdgesKept ==
    /\ \A c \in EdgeOfU, member \in {"u_", "f_"} :
          discretization_'[member][<<c[1] + 1, c[2] + 1>>] =
              discretization_[member][<<c[1] + 1, c[2] + 1>>]
    /\ \A c \in EdgeOfV, member \in {"v_", "g_"} :
          discretization_'[member][<<c[1] + 1, c[2] + 1>>] =
              discretization_[member][<<c[1] + 1, c[2] + 1>>]
    /\ \A c \in EdgeOfP :
          discretization_'.rhs_[<<c[1] + 1, c[2] + 1>>] =
              discretization_.rhs_[<<c[1] + 1, c[2] + 1>>]

\* C11: from the return of applyBoundaryValues to the output of the same cycle
\* F equals u on every edge cell of the u range and G equals v on every edge
\* cell of the v range, and the steps computePreliminaryVelocities,
\* computeRightHandSide and computeVelocities change no edge cell of F, G,
\* rhs, u or v.
C11_EdgesInheritBoundary ==
    /\ [](pc \in {"computeTimeStepWidth", "advanceTime",
                  "computePreliminaryVelocities", "computeRightHandSide",
                  "computePressure", "computeVelocities", "writeOutput"} =>
              EdgesInherited)
    /\ [][(pc \in {"computePreliminaryVelocities", "computeRightHandSide",
                   "computeVelocities"}) => EdgesKept]_vars

\* C11 witness: at the output of a cycle u has an interior cell, F differs
\* from u there, and an edge cell of u holds a value other than zero.
C11_Witness ==
    /\ pc = "writeOutput"
    /\ EdgesInherited
    /\ \E i \in uIBegin + 1 .. uIEnd - 2, j \in uJBegin + 1 .. uJEnd - 2 :
          F(i, j) # U(i, j)
    /\ \E c \in EdgeOfU : U(c[1], c[2]) # Zero

\* C12: for every cell count, no accessor call issued by applyBoundaryValues,
\* computeTimeStepWidth, computePreliminaryVelocities, computeRightHandSide or
\* computeVelocities fails its range check or leaves the member array: no
\* index-out-of-range line is ever printed, and a run that has begun its
\* first iteration is never aborted.
C12_AccessesInRange ==
    /\ cout.axis = "none"
    /\ pc # "undefined"
    /\ pc = "aborted" => hist.steps = 0

\* C12 witness: a run on the smallest grid, one cell in each direction, has
\* gone through every step of its iterations and returned.
C12_Witness ==
    /\ pc = "done"
    /\ nCells_ = <<1, 1>>
    /\ hist.steps >= 2
    /\ Len(written) = hist.steps
    /\ cout = NoMessage

-----------------------------------------------------------------------------
(* A client of the accessor surface (the discretization, the pressure       *)
(* solver, the output writers): it constructs a grid, issues one accessor   *)
(* call with arbitrary indices, reading or assigning through the result,    *)
(* and then a second call on the same field.                                *)

\* the indices a client passes: every valid one and one beyond either end
Indices == (-2) .. (MaxCells + 1)

\* the values a client assigns
Assigned == {R(1), R(2)}

\* the member array an accessor serves
MemberOf(acc) ==
    CASE acc \in {"u_const", "u"} -> "u_"
      [] acc \in {"v_const", "v"} -> "v_"
      [] acc \in {"p_const", "p"} -> "p_"
      [] acc = "rhs" -> "rhs_"
      [] acc = "f" -> "f_"
      [] acc = "g" -> "g_"

InitGrid ==
    /\ pc = "client0"
    /\ settings_ = Unloaded
    /\ \E n \in CellCounts :
          /\ meshWidth_ = <<Div(R(1), R(n[1])), Div(R(1), R(n[2]))>>
          /\ discretization_ = StaggeredGrid(n, meshWidth_)
    /\ pressureSolver_ = Null
    /\ dt_ = Zero
    /\ currentTime = Zero
    /\ cout = NoMessage
    /\ written = <<>>
    /\ ret = NoValue
    /\ lastAcc = NoAccess
    /\ hist = [prevAcc |-> NoAccess, before |-> discretization_]

\* one accessor call and the use made of what it returns
AccessorCall(acc, i, j, use, val) ==
    LET c == Call(acc, i, j)
        next == IF pc = "client0" THEN "client1" ELSE "client2"
    IN  /\ \/ pc = "client0"
           \/ pc = "client1" /\ MemberOf(acc) = MemberOf(lastAcc.acc)
        /\ lastAcc' = [acc |-> acc, i |-> i, j |-> j, use |-> use, val |-> val]
        /\ hist' = [prevAcc |-> lastAcc, before |-> discretization_]
        /\ IF ~c.ok
           THEN \* the message is printed, then "throw;" terminates the process
                /\ cout' = c.msg
                /\ pc' = "aborted"
                /\ ret' = NoValue
                /\ UNCHANGED discretization_
           ELSE IF ~InStorage(discretization_, c)
           THEN \* an access outside the member array: undefined behaviour
                /\ pc' = "undefined"
                /\ ret' = NoValue
                /\ UNCHANGED <<cout, discretization_>>
           ELSE IF use = "read"
           THEN /\ ret' = Load(discretization_, c)
                /\ pc' = next
                /\ UNCHANGED <<cout, discretization_>>
           ELSE /\ discretization_' = Store(discretization_, c, val)
                /\ ret' = NoValue
                /\ pc' = next
                /\ UNCHANGED cout
        /\ UNCHANGED <<settings_, meshWidth_, pressureSolver_, dt_, currentTime, written>>

\* a read through a const accessor
ReadValue ==
    \E acc \in ConstAccessors, i \in Indices, j \in Indices :
        AccessorCall(acc, i, j, "read", NoValue)

\* a read through the reference a mutable accessor returns
ReadReference ==
    \E acc \in RefAccessors, i \in Indices, j \in Indices :
        AccessorCall(acc, i, j, "read", NoValue)

\* an assignment through the reference a mutable accessor returns
WriteReference ==
    \E acc \in RefAccessors, i \in Indices, j \in Indices, val \in Assigned :
        AccessorCall(acc, i, j, "write", val)

NextGrid == ReadValue \/ ReadReference \/ WriteReference

SpecGrid == InitGrid /\ [][NextGrid]_vars

-----------------------------------------------------------------------------
(* Claims about the accessor surface, checked under SpecGrid.               *)

\* the name an accessor prints for its field
NameOf(acc) ==
    CASE acc \in {"u_const", "u"} -> "u"
      [] acc \in {"v_const", "v"} -> "v"
      [] acc \in {"p_const", "p"} -> "p"
      [] acc = "rhs" -> "rhs"
      [] acc = "f" -> "f"
      [] acc = "g" -> "g"

\* the valid logical range [IBegin, IEnd) x [JBegin, JEnd) of an accessor's field
IBeginOf(acc) == CASE MemberOf(acc) \in {"u_", "f_"} -> uIBegin
                   [] MemberOf(acc) \in {"v_", "g_"} -> vIBegin
                   [] MemberOf(acc) \in {"p_", "rhs_"} -> pIBegin
IEndOf(acc) == CASE MemberOf(acc) \in {"u_", "f_"} -> uIEnd
                 [] MemberOf(acc) \in {"v_", "g_"} -> vIEnd
                 [] MemberOf(acc) \in {"p_", "rhs_"} -> pIEnd
JBeginOf(acc) == CASE MemberOf(acc) \in {"u_", "f_"} -> uJBegin
                   [] MemberOf(acc) \in {"v_", "g_"} -> vJBegin
                   [] MemberOf(acc) \in {"p_", "rhs_"} -> pJBegin
JEndOf(acc) == CASE MemberOf(acc) \in {"u_", "f_"} -> uJEnd
                 [] MemberOf(acc) \in {"v_", "g_"} -> vJEnd
                 [] MemberOf(acc) \in {"p_", "rhs_"} -> pJEnd

IOutside(a) == a.i < IBeginOf(a.acc) \/ a.i >= IEndOf(a.acc)
JOutside(a) == a.j < JBeginOf(a.acc) \/ a.j >= JEndOf(a.acc)

\* C1: an accessor call whose i or j lies outside the field's valid range is
\* fatal: the run is aborted, the line printed names the field, the offending
\* index and the valid range of that index, no value is returned and no stored
\* value of any field has changed.
C1_OutOfRangeIsFatal ==
    (lastAcc # NoAccess /\ (IOutside(lastAcc) \/ JOutside(lastAcc))) =>
        /\ pc = "aborted"
        /\ ret = NoValue
        /\ discretization_ = hist.before
        /\ cout.field = NameOf(lastAcc.acc)
        /\ IF IOutside(lastAcc)
           THEN /\ cout.index = lastAcc.i
                /\ cout.lo = IBeginOf(lastAcc.acc)
                /\ cout.hi = IEndOf(lastAcc.acc)
           ELSE /\ cout.index = lastAcc.j
                /\ cout.lo = JBeginOf(lastAcc.acc)
                /\ cout.hi = JEndOf(lastAcc.acc)

\* C1 witness: a field holds an assigned value and the next call, an assignment
\* with i in range and j beyond the end, has aborted the run.
C1_Witness ==
    /\ pc = "aborted"
    /\ hist.prevAcc # NoAccess
    /\ hist.prevAcc.use = "write"
    /\ lastAcc.use = "write"
    /\ ~IOutside(lastAcc)
    /\ lastAcc.j = JEndOf(lastAcc.acc)
    /\ \E c \in DOMAIN discretization_.f_ : discretization_.f_[c] # Zero

\* C2: an assignment through a mutable accessor at a valid (i, j) followed by a
\* read of the same field at the same (i, j) succeeds and returns the assigned
\* value.
C2_RoundTrip ==
    (/\ lastAcc # NoAccess
     /\ hist.prevAcc # NoAccess
     /\ hist.prevAcc.use = "write"
     /\ lastAcc.use = "read"
     /\ lastAcc.i = hist.prevAcc.i
     /\ lastAcc.j = hist.prevAcc.j
     /\ ~IOutside(lastAcc)
     /\ ~JOutside(lastAcc)) =>
        /\ pc = "client2"
        /\ ret = hist.prevAcc.val

\* C2 witness: 2 was assigned to v at its last valid cell and read back through
\* the const accessor.
C2_Witness ==
    /\ pc = "client2"
    /\ hist.prevAcc.acc = "v"
    /\ hist.prevAcc.use = "write"
    /\ hist.prevAcc.val = R(2)
    /\ lastAcc.acc = "v_const"
    /\ lastAcc.i = hist.prevAcc.i
    /\ lastAcc.j = hist.prevAcc.j
    /\ lastAcc.i = vIEnd - 1
    /\ lastAcc.j = vJEnd - 1
    /\ nCells_ = <<MaxCells, 1>>
    /\ ret = R(2)

AllAccessors == ConstAccessors \cup RefAccessors

\* the exclusive ends of the claim as stated: cell-count+1 or cell-count+2
EndsAsStated(acc) ==
    /\ IEndOf(acc) \in {nCells_[1] + 1, nCells_[1] + 2}
    /\ JEndOf(acc) \in {nCells_[2] + 1, nCells_[2] + 2}

\* every call in range yields the storage cell (i+1, j+1)
ShiftByOne ==
    \A acc \in AllAccessors, i \in Indices, j \in Indices :
        Call(acc, i, j).ok =>
            /\ Call(acc, i, j).x = i + 1
            /\ Call(acc, i, j).y = j + 1
            /\ Call(acc, i, j).member = MemberOf(acc)

\* C6 as stated: every range begins at -1 and ends (exclusive) at cell-count+1
\* or cell-count+2, the accessors shift by +1.
C6_AsStated ==
    pc = "client0" =>
        /\ \A acc \in AllAccessors :
              /\ IBeginOf(acc) = -1
              /\ JBeginOf(acc) = -1
              /\ EndsAsStated(acc)
        /\ ShiftByOne

\* the calls an accessor accepts are those with -1 <= i < ei and -1 <= j < ej
Accepts(acc, ei, ej) ==
    \A i \in Indices, j \in Indices :
        Call(acc, i, j).ok <=> (-1 <= i /\ i < ei /\ -1 <= j /\ j < ej)

\* C6, amended: every range begins at -1 and ends (exclusive) at cell-count or
\* cell-count+1 depending on staggering: on the constructed grid u and F accept
\* [-1, nx) x [-1, ny+1), v and G accept [-1, nx+1) x [-1, ny), p and rhs
\* accept [-1, nx+1) x [-1, ny+1), and every accepted call yields storage cell
\* (i+1, j+1); no call reaches outside a member array, and a value assigned at
\* (i, j) is stored at (i+1, j+1).
C6_Ranges ==
    /\ pc = "client0" =>
          /\ \A acc \in {"u_const", "u", "f"} :
                Accepts(acc, nCells_[1], nCells_[2] + 1)
          /\ \A acc \in {"v_const", "v", "g"} :
                Accepts(acc, nCells_[1] + 1, nCells_[2])
          /\ \A acc \in {"p_const", "p", "rhs"} :
                Accepts(acc, nCells_[1] + 1, nCells_[2] + 1)
          /\ ShiftByOne
    /\ pc # "undefined"
    /\ (pc \in {"client1", "client2"} /\ lastAcc.use = "write") =>
          discretization_[MemberOf(lastAcc.acc)][<<lastAcc.i + 1, lastAcc.j + 1>>]
              = lastAcc.val

\* C6 witness: an assignment to F at the last valid i, which is cell-count - 1,
\* has been stored, and the same call with i = cell-count has aborted the run.
C6_Witness ==
    /\ pc = "aborted"
    /\ hist.prevAcc # NoAccess
    /\ hist.prevAcc.acc = "f"
    /\ hist.prevAcc.use = "write"
    /\ hist.prevAcc.i = nCells_[1] - 1
    /\ lastAcc.acc = "f"
    /\ lastAcc.i = nCells_[1]
    /\ lastAcc.j = hist.prevAcc.j
    /\ discretization_.f_[<<nCells_[1], lastAcc.j + 1>>] = hist.prevAcc.val

-----------------------------------------------------------------------------
(* applyBoundaryValues on arbitrary field contents.                         *)

\* field contents before the call: cell (x, y) holds (a*x + b*y + c) mod 4 - 1
Patterns == {<<0, 0, 1>>, <<1, 0, 0>>, <<0, 1, 2>>, <<1, 2, 3>>}

Filled(array, k) ==
    [c \in DOMAIN array |-> R(((k[1] * c[1] + k[2] * c[2] + k[3]) % 4) - 1)]

\* the Dirichlet values of the four edges, (u, v) each
BcBottoms == {<<R(0), R(0)>>, <<R(1), R(2)>>}
BcTops == {<<R(1), R(0)>>, <<R(3), R(4)>>}
BcLefts == {<<R(0), R(0)>>, <<R(5), R(6)>>}
BcRights == {<<R(0), R(0)>>, <<R(7), R(8)>>}

InitBC ==
    /\ pc = "loop"
    /\ \E n \in CellCounts, bottom \in BcBottoms, top \in BcTops,
          left \in BcLefts, right \in BcRights :
          settings_ = Settings(n, <<R(1), R(1)>>, R(1), R(1), R(1), R(1),
                               bottom, top, left, right, "SOR")
    /\ meshWidth_ = MeshWidth(settings_)
    /\ \E ku \in Patterns, kv \in Patterns :
          LET grid == StaggeredGrid(settings_.nCells, meshWidth_)
          IN  discretization_ = [grid EXCEPT !.u_ = Filled(grid.u_, ku),
                                             !.v_ = Filled(grid.v_, kv),
                                             !.f_ = Filled(grid.f_, kv),
                                             !.g_ = Filled(grid.g_, ku)]
    /\ pressureSolver_ = "SOR"
    /\ dt_ = Zero
    /\ currentTime = Zero
    /\ cout = NoMessage
    /\ written = <<>>
    /\ ret = NoValue
    /\ lastAcc = NoAccess
    /\ hist = HistInit

NextBC == ApplyBoundaryValues

SpecBC == InitBC /\ [][NextBC]_vars

\* C4: after applyBoundaryValues the four corners of u hold the left or right
\* normal value, the four corners of v hold 2*sideValue minus the adjacent
\* bottom or top edge cell of v (which holds the bottom or top normal value),
\* and F and G hold the same corner values.
C4_CornersHoldSideValue ==
    pc = "computeTimeStepWidth" =>
        LET s == settings_
        IN  /\ \A j \in {uJBegin, uJEnd - 1} :
                  /\ U(uIBegin, j) = s.dirichletBcLeft[1]
                  /\ U(uIEnd - 1, j) = s.dirichletBcRight[1]
                  /\ F(uIBegin, j) = s.dirichletBcLeft[1]
                  /\ F(uIEnd - 1, j) = s.dirichletBcRight[1]
            /\ \A j \in {vJBegin, vJEnd - 1} :
                  /\ V(vIBegin, j) = Sub(Mul(Two, s.dirichletBcLeft[2]), V(vIBegin + 1, j))
                  /\ V(vIEnd - 1, j) = Sub(Mul(Two, s.dirichletBcRight[2]), V(vIEnd - 2, j))
                  /\ G(vIBegin, j) = V(vIBegin, j)
                  /\ G(vIEnd - 1, j) = V(vIEnd - 1, j)
            /\ V(vIBegin + 1, vJBegin) = s.dirichletBcBottom[2]
            /\ V(vIEnd - 2, vJBegin) = s.dirichletBcBottom[2]
            /\ V(vIBegin + 1, vJEnd - 1) = s.dirichletBcTop[2]
            /\ V(vIEnd - 2, vJEnd - 1) = s.dirichletBcTop[2]

\* C4 witness: the call has completed with eight distinct Dirichlet values on
\* the largest grid whose fields were not zero before, and the corners differ
\* from what the bottom and top rules assign.
C4_Witness ==
    /\ pc = "computeTimeStepWidth"
    /\ settings_.nCells = <<MaxCells, MaxCells>>
    /\ settings_.dirichletBcBottom = <<R(1), R(2)>>
    /\ settings_.dirichletBcTop = <<R(3), R(4)>>
    /\ settings_.dirichletBcLeft = <<R(5), R(6)>>
    /\ settings_.dirichletBcRight = <<R(7), R(8)>>
    /\ U(0, 0) # Zero
    /\ U(uIBegin, uJBegin) #
          Sub(Mul(Two, settings_.dirichletBcBottom[1]), U(uIBegin, uJBegin + 1))
    /\ U(uIEnd - 1, uJEnd - 1) #
          Sub(Mul(Two, settings_.dirichletBcTop[1]), U(uIEnd - 1, uJEnd - 2))
    /\ V(vIBegin, vJBegin) # settings_.dirichletBcBottom[2]
    /\ V(vIEnd - 1, vJEnd - 1) # settings_.dirichletBcTop[2]

=============================================================================
